---- MODULE Spec2Model ----
(***************************************************************************)
(* State-machine model of the in-memory virtual filesystem of              *)
(* crates/wasi-common/virtfs/src/lib.rs: the Filesystem node store, the    *)
(* DirInode / FileInode nodes, the Dir capability (path resolution and     *)
(* directory mutation), the File open-file capability and the Readdir      *)
(* iterator.                                                               *)
(*                                                                         *)
(* Rc<RefCell<..>> is modelled by what it does: a node exists as long as   *)
(* some strong reference (a directory entry, a Dir capability, a File      *)
(* handle, the Filesystem's root slot) reaches it, a Weak parent reference *)
(* upgrades only while its target exists, and a RefCell borrow_mut of a    *)
(* node that path resolution still holds borrowed panics.  Timestamps and  *)
(* the clock are left out: no operation reads them back into a decision.   *)
(***************************************************************************)
EXTENDS Integers, Sequences, FiniteSets, TLC

\* ------------------------------------------------------------------ bounds
MaxSerial == 3
MaxHandles == 2
MaxNlink == 2
MaxSize == 2
MaxCursor == 3

VARIABLES
    dirs,         \* serial -> DirInode  [parent, contents], live directories
    files,        \* serial -> FileInode [nlink, contents], live files
    next_serial,  \* Filesystem.next_serial
    dircaps,      \* serials of the directories a Dir capability is held on
    handles,      \* sequence of File capabilities [inode, position, append, mode]
    result,       \* outcome of the last call: "Ok", an error kind, or "Panic"
    ret           \* value returned by the last call, a record tagged by `op`

vars == <<dirs, files, next_serial, dircaps, handles, result, ret>>
fsvars == <<dirs, files, next_serial, dircaps, handles>>

\* --------------------------------------------------------------- strings
\* A path is a sequence of characters, so that splitting on '/' is computed.
Slash == "/"
Dot == <<".">>
DotDot == <<".", ".">>

\* str::find('/'): index of the first separator, 0 when there is none.
find_slash(path) ==
    LET idx == {i \in 1..Len(path) : path[i] = Slash}
    IN  IF idx = {} THEN 0 ELSE CHOOSE i \in idx : \A j \in idx : i <= j

\* ------------------------------------------------------ HashMap<String, Inode>
\* A map is the sequence of its entries in iteration order.
Names(contents) == {contents[i].name : i \in 1..Len(contents)}

contains_key(contents, name) == name \in Names(contents)

\* HashMap::get: <<>> for None, <<serial>> for Some.
get(contents, name) ==
    IF contains_key(contents, name)
    THEN <<(CHOOSE i \in 1..Len(contents) : contents[i].name = name)>>
    ELSE <<>>

entry_inode(contents, name) == contents[get(contents, name)[1]].inode

Perms(n) == {p \in [1..n -> 1..n] : \A i, j \in 1..n : p[i] = p[j] => i = j}

\* HashMap::insert.  An existing key keeps its slot and gets the new value; a
\* new key may land anywhere and a resize may reorder every entry, so each
\* permutation of the enlarged entry set is a possible iteration order.
insert(contents, name, inode) ==
    IF contains_key(contents, name)
    THEN {[i \in 1..Len(contents) |->
              IF contents[i].name = name
              THEN [name |-> name, inode |-> inode] ELSE contents[i]]}
    ELSE LET all == Append(contents, [name |-> name, inode |-> inode])
         IN  {[i \in 1..Len(all) |-> all[p[i]]] : p \in Perms(Len(all))}

\* HashMap::remove: the other entries keep their relative order.
remove(contents, name) ==
    LET keep == {i \in 1..Len(contents) : contents[i].name # name}
        RECURSIVE pick(_)
        pick(i) == IF i > Len(contents) THEN <<>>
                   ELSE IF i \in keep THEN <<contents[i]>> \o pick(i + 1)
                   ELSE pick(i + 1)
    IN  pick(1)

\* ------------------------------------------------------- Filesystem instances
\* A node is named by its address: the serial its Filesystem gave it, offset
\* by the Filesystem's base, so that nodes of two instances with the same
\* serial are different nodes.  The first Filesystem has base 0.
FsStride == MaxSerial + 1

\* DirInode::fs / FileInode::fs: the Filesystem a node belongs to.
fs_of(node) == node \div FsStride

\* The serial a node reports.
serial(node) == node % FsStride

\* The root directories, which their Filesystem holds.
Roots == {0, FsStride}

\* ------------------------------------------------------------ Rc ownership
\* The nodes the entries of the directories in `from` own.
owned(d, from) ==
    UNION {{d[s].contents[i].inode : i \in 1..Len(d[s].contents)} : s \in from}

\* The directories some strong reference reaches: the root slot, the Dir
\* capabilities, and the entries of a reached directory.
RECURSIVE reach_dirs(_, _)
reach_dirs(d, seen) ==
    LET more == owned(d, seen) \cap DOMAIN d
    IN  IF more \subseteq seen THEN seen ELSE reach_dirs(d, seen \cup more)

\* Reclaiming a file as soon as no directory entry names it, open or not.
held_files_by_name_only(d, live, hs) == owned(d, live)

\* Dropping the last Rc of a FileInode: a file stays while an entry of a
\* live directory or a File capability holds it.
held_files(d, live, hs) ==
    owned(d, live) \cup {hs[h].inode : h \in 1..Len(hs)}

\* The node store after the strong references no longer reaching a node are
\* dropped: [dirs, files].
release(d, f, caps, hs) ==
    LET live == reach_dirs(d, (Roots \cup caps) \cap DOMAIN d)
        keepf == held_files(d, live, hs) \cap DOMAIN f
    IN  [dirs |-> [s \in live |-> d[s]], files |-> [s \in keepf |-> f[s]]]

\* The value of a call that fails (a successful call is tagged by its name).
NoRet == [op |-> "none"]

\* ---------------------------------------------------------- Filesystem::new
Init ==
    /\ dirs = (0 :> [parent |-> <<>>, contents |-> <<>>])
    /\ files = [s \in {} |-> [nlink |-> 1, contents |-> <<>>]]
    /\ next_serial = 1
    /\ dircaps = {0}
    /\ handles = <<>>
    /\ result = "Init"
    /\ ret = NoRet

\* Filesystem::new_file: nlink 1, empty contents.
new_file == [nlink |-> 1, contents |-> <<>>]

\* Filesystem::new_dir(parent): empty contents, Weak reference to parent.
new_dir(parent) == [parent |-> <<parent>>, contents |-> <<>>]

\* ------------------------------------------------------------- Dir::at_path
\* The outcome of the walk: the directory and the name the closure is called
\* with, and the directories whose shared borrow (the temporary of
\* `self.0.borrow().contents.get(dirname)`) is alive while the closure runs.
RECURSIVE at_path_from(_, _, _, _)
at_path_from(self, path, accept_trailing_slash, held) ==
    LET slash_index == find_slash(path)
        dirname == SubSeq(path, 1, slash_index - 1)
        rest == SubSeq(path, slash_index + 1, Len(path))
    IN  IF slash_index # 0
        THEN IF rest = <<>>
             THEN IF accept_trailing_slash
                  THEN [err |-> "Ok", dir |-> self, name |-> path, held |-> held]
                  ELSE [err |-> "NotFound", dir |-> self, name |-> path, held |-> held]
             ELSE IF contains_key(dirs[self].contents, dirname)
                  THEN LET inode == entry_inode(dirs[self].contents, dirname)
                       IN  IF inode \in DOMAIN dirs
                           THEN at_path_from(inode, rest, accept_trailing_slash,
                                             held \cup {self})
                           ELSE [err |-> "NotFound", dir |-> self, name |-> path,
                                 held |-> held]
                  ELSE [err |-> "NotFound", dir |-> self, name |-> path, held |-> held]
        ELSE [err |-> "Ok", dir |-> self, name |-> path, held |-> held]

at_path(self, path, accept_trailing_slash) ==
    at_path_from(self, path, accept_trailing_slash, {})

\* Dir::child_dir: <<serial>> or <<>> (not found).
child_dir(dir, name) ==
    IF name = Dot THEN <<dir>>
    ELSE IF contains_key(dirs[dir].contents, name)
            /\ entry_inode(dirs[dir].contents, name) \in DOMAIN dirs
         THEN <<entry_inode(dirs[dir].contents, name)>>
         ELSE <<>>

\* Dir::child_file: <<serial>> or <<>> (not found; also when the name is a directory).
child_file(dir, name) ==
    IF contains_key(dirs[dir].contents, name)
       /\ entry_inode(dirs[dir].contents, name) \in DOMAIN files
    THEN <<entry_inode(dirs[dir].contents, name)>>
    ELSE <<>>

\* ------------------------------------------------------------ call outcomes
\* A panic unwinds out of the engine: nothing is called afterwards.
Running == result # "Panic"

\* The call returns Err(e) having changed nothing.
Fail(e) ==
    /\ result' = e
    /\ ret' = NoRet
    /\ UNCHANGED fsvars

\* The call returns Ok(v) leaving the node store d, f and the handles hs.
Done(d, f, hs, v) ==
    LET st == release(d, f, dircaps, hs)
    IN  /\ dirs' = st.dirs
        /\ files' = st.files
        /\ handles' = hs
        /\ result' = "Ok"
        /\ ret' = v

\* The call panics (RefCell already borrowed, unwrap of None) with the node
\* store as the statements before the panic left it.
Panic(d, f) ==
    /\ dirs' = d
    /\ files' = f
    /\ result' = "Panic"
    /\ ret' = NoRet
    /\ UNCHANGED <<next_serial, dircaps, handles>>

\* RefCell::borrow_mut of directory `dir` succeeds unless a Ref of it is alive.
can_borrow_mut(dir, held) == dir \notin held

\* ------------------------------------------------------------ Dir::open_file
file_mode(read, write) ==
    IF read /\ write THEN "ReadWrite" ELSE IF write THEN "WriteOnly" ELSE "ReadOnly"

\* Box::new(File { inode, position: Cell::new(0), fdflags, mode })
new_handle(inode, fdflags, mode) ==
    [inode |-> inode, position |-> 0, fdflags |-> fdflags, mode |-> mode]

\* The Err(_notfound) arms: new_file, insert under the name, wrap in a File.
\* (next_serial is the counter of the first Filesystem: nodes are created
\* there only.)
open_created(r, fdflags, mode) ==
    /\ fs_of(r.dir) = 0
    /\ next_serial <= MaxSerial
    /\ Len(handles) < MaxHandles
    /\ next_serial' = next_serial + 1
    /\ UNCHANGED dircaps
    /\ IF can_borrow_mut(r.dir, r.held)
       THEN \E c2 \in insert(dirs[r.dir].contents, r.name, next_serial) :
               Done([dirs EXCEPT ![r.dir].contents = c2],
                    [s \in DOMAIN files \cup {next_serial} |->
                        IF s = next_serial THEN new_file ELSE files[s]],
                    Append(handles, new_handle(next_serial, fdflags, mode)),
                    [op |-> "open_file", fd |-> Len(handles) + 1])
       ELSE /\ dirs' = dirs /\ files' = files /\ handles' = handles
            /\ result' = "Panic" /\ ret' = NoRet

\* The arms that wrap an existing FileInode (update_atim only sets a timestamp).
open_existing(inode, fdflags, mode) ==
    /\ Len(handles) < MaxHandles
    /\ UNCHANGED <<next_serial, dircaps>>
    /\ Done(dirs, files, Append(handles, new_handle(inode, fdflags, mode)),
            [op |-> "open_file", fd |-> Len(handles) + 1])

open_file(self, path, oflags, read, write, fdflags) ==
    LET mode == file_mode(read, write)
        r == at_path(self, path, FALSE)
        found == child_file(r.dir, r.name)
    IN  /\ Running
        /\ self \in dircaps
        /\ IF r.err # "Ok" THEN Fail(r.err)
           ELSE IF {"CREATE", "EXCLUSIVE"} \subseteq oflags
           THEN IF found = <<>>
                THEN open_created(r, fdflags, mode)
                ELSE Fail("Exist")
           ELSE IF "CREATE" \in oflags
           THEN IF found # <<>>
                THEN open_existing(found[1], fdflags, mode)
                ELSE open_created(r, fdflags, mode)
           ELSE IF found = <<>>
                THEN Fail("NotFound")
                ELSE open_existing(found[1], fdflags, mode)

\* ------------------------------------------------------------- Dir::open_dir
open_dir(self, path) ==
    LET r == at_path(self, path, TRUE)
        d == child_dir(r.dir, r.name)
    IN  /\ Running
        /\ self \in dircaps
        /\ IF r.err # "Ok" THEN Fail(r.err)
           ELSE IF d = <<>> THEN Fail("NotFound")
           ELSE /\ dircaps' = dircaps \cup {d[1]}
                /\ result' = "Ok"
                /\ ret' = [op |-> "open_dir", inode |-> d[1]]
                /\ UNCHANGED <<dirs, files, next_serial, handles>>

\* Drop of a Dir capability other than a root's (the Filesystem keeps the
\* root): the Rc it held is released.
drop_dir(self) ==
    /\ Running
    /\ self \in dircaps \ Roots
    /\ dircaps' = dircaps \ {self}
    /\ LET st == release(dirs, files, dircaps \ {self}, handles)
       IN  dirs' = st.dirs /\ files' = st.files
    /\ result' = "Ok"
    /\ ret' = [op |-> "drop_dir"]
    /\ UNCHANGED <<next_serial, handles>>

\* ----------------------------------------------------------- Dir::create_dir
\* The new node's parent is `self`, the directory the call was made on
\* (new_dir(&self.0)), and it is inserted into `dir`, the resolved one.
create_dir(self, path) ==
    LET r == at_path(self, path, TRUE)
    IN  /\ Running
        /\ self \in dircaps
        /\ IF r.err # "Ok" THEN Fail(r.err)
           ELSE IF contains_key(dirs[r.dir].contents, r.name) THEN Fail("Exist")
           ELSE /\ fs_of(r.dir) = 0
                /\ next_serial <= MaxSerial
                /\ next_serial' = next_serial + 1
                /\ UNCHANGED dircaps
                /\ IF can_borrow_mut(r.dir, r.held)
                   THEN \E c2 \in insert(dirs[r.dir].contents, r.name, next_serial) :
                           Done([s \in DOMAIN dirs \cup {next_serial} |->
                                    IF s = next_serial THEN new_dir(self)
                                    ELSE IF s = r.dir
                                         THEN [dirs[s] EXCEPT !.contents = c2]
                                         ELSE dirs[s]],
                                files, handles, [op |-> "create_dir"])
                   ELSE /\ dirs' = dirs /\ files' = files /\ handles' = handles
                        /\ result' = "Panic" /\ ret' = NoRet

\* ----------------------------------------------------------- Dir::remove_dir
\* remove_dir without the is_empty test: the name is removed with its subtree.
remove_dir_unchecked(self, path) ==
    LET r == at_path(self, path, TRUE)
        e == get(dirs[r.dir].contents, r.name)
        inode == entry_inode(dirs[r.dir].contents, r.name)
    IN  /\ Running
        /\ self \in dircaps
        /\ IF r.err # "Ok" THEN Fail(r.err)
           ELSE IF e = <<>> THEN Fail("NotFound")
           ELSE IF inode \in DOMAIN files THEN Fail("NotDir")
           ELSE /\ UNCHANGED <<next_serial, dircaps>>
                /\ Done([dirs EXCEPT ![r.dir].contents = remove(@, r.name)],
                        files, handles, [op |-> "remove_dir"])

remove_dir(self, path) ==
    LET r == at_path(self, path, TRUE)
        e == get(dirs[r.dir].contents, r.name)
        inode == entry_inode(dirs[r.dir].contents, r.name)
    IN  /\ Running
        /\ self \in dircaps
        /\ IF r.err # "Ok" THEN Fail(r.err)
           ELSE IF ~can_borrow_mut(r.dir, r.held)
           THEN Panic(dirs, files)
           ELSE IF e = <<>> THEN Fail("NotFound")
           ELSE IF inode \in DOMAIN files THEN Fail("NotDir")
           ELSE IF dirs[inode].contents # <<>> THEN Fail("NotEmpty")
           ELSE /\ UNCHANGED <<next_serial, dircaps>>
                /\ Done([dirs EXCEPT ![r.dir].contents = remove(@, r.name)],
                        files, handles, [op |-> "remove_dir"])

\* ---------------------------------------------------------- Dir::unlink_file
\* link_decrement is `nlink -= 1`: on a count of 0 the subtraction overflows.
unlink_file(self, path) ==
    LET r == at_path(self, path, FALSE)
        e == get(dirs[r.dir].contents, r.name)
        inode == entry_inode(dirs[r.dir].contents, r.name)
    IN  /\ Running
        /\ self \in dircaps
        /\ IF r.err # "Ok" THEN Fail(r.err)
           ELSE IF ~can_borrow_mut(r.dir, r.held)
           THEN Panic(dirs, files)
           ELSE IF e = <<>> THEN Fail("NotFound")
           ELSE IF inode \in DOMAIN dirs THEN Fail("IsDir")
           ELSE IF files[inode].nlink = 0
           THEN Panic(dirs, files)
           ELSE /\ UNCHANGED <<next_serial, dircaps>>
                /\ Done([dirs EXCEPT ![r.dir].contents = remove(@, r.name)],
                        [files EXCEPT ![inode].nlink = @ - 1],
                        handles, [op |-> "unlink_file"])

\* ------------------------------------------------------------ Dir::hard_link
\* hard_link that stores a copy of the source under the new name instead of
\* the source's own node.
hard_link_copy(self, src_path, target_dir, target_path) ==
    LET r == at_path(self, src_path, FALSE)
        e == get(dirs[r.dir].contents, r.name)
        src_inode == entry_inode(dirs[r.dir].contents, r.name)
        t == at_path_from(target_dir, target_path, FALSE, r.held)
    IN  /\ Running
        /\ self \in dircaps
        /\ target_dir \in dircaps
        /\ IF r.err # "Ok" THEN Fail(r.err)
           ELSE IF e = <<>> THEN Fail("NotFound")
           ELSE IF src_inode \in DOMAIN dirs THEN Fail("PermissionDenied")
           ELSE IF t.err # "Ok" THEN Fail(t.err)
           ELSE IF fs_of(t.dir) # fs_of(src_inode) THEN Fail("NotSupported")
           ELSE IF contains_key(dirs[t.dir].contents, t.name) THEN Fail("Exist")
           ELSE /\ next_serial <= MaxSerial
                /\ next_serial' = next_serial + 1
                /\ UNCHANGED dircaps
                /\ \E c2 \in insert(dirs[t.dir].contents, t.name, next_serial) :
                      Done([dirs EXCEPT ![t.dir].contents = c2],
                           [s \in DOMAIN files \cup {next_serial} |->
                               IF s = next_serial
                               THEN [nlink |-> 1, contents |-> files[src_inode].contents]
                               ELSE files[s]],
                           handles, [op |-> "hard_link"])

\* hard_link without the same-filesystem test.
hard_link_any_fs(self, src_path, target_dir, target_path) ==
    LET r == at_path(self, src_path, FALSE)
        e == get(dirs[r.dir].contents, r.name)
        src_inode == entry_inode(dirs[r.dir].contents, r.name)
        t == at_path_from(target_dir, target_path, FALSE, r.held)
        linked == [files EXCEPT ![src_inode].nlink = @ + 1]
    IN  /\ Running
        /\ self \in dircaps
        /\ target_dir \in dircaps
        /\ IF r.err # "Ok" THEN Fail(r.err)
           ELSE IF e = <<>> THEN Fail("NotFound")
           ELSE IF src_inode \in DOMAIN dirs THEN Fail("PermissionDenied")
           ELSE IF t.err # "Ok" THEN Fail(t.err)
           ELSE IF contains_key(dirs[t.dir].contents, t.name) THEN Fail("Exist")
           ELSE /\ files[src_inode].nlink < MaxNlink
                /\ IF can_borrow_mut(t.dir, t.held)
                   THEN /\ UNCHANGED <<next_serial, dircaps>>
                        /\ \E c2 \in insert(dirs[t.dir].contents, t.name, src_inode) :
                              Done([dirs EXCEPT ![t.dir].contents = c2],
                                   linked, handles, [op |-> "hard_link"])
                   ELSE Panic(dirs, linked)

\* The closure of the source walk runs the target walk, so the borrows of the
\* source walk are still alive when the target directory is borrowed mutably;
\* link_increment comes before that borrow_mut.
hard_link(self, src_path, target_dir, target_path) ==
    LET r == at_path(self, src_path, FALSE)
        e == get(dirs[r.dir].contents, r.name)
        src_inode == entry_inode(dirs[r.dir].contents, r.name)
        t == at_path_from(target_dir, target_path, FALSE, r.held)
        linked == [files EXCEPT ![src_inode].nlink = @ + 1]
    IN  /\ Running
        /\ self \in dircaps
        /\ target_dir \in dircaps
        /\ IF r.err # "Ok" THEN Fail(r.err)
           ELSE IF e = <<>> THEN Fail("NotFound")
           ELSE IF src_inode \in DOMAIN dirs THEN Fail("PermissionDenied")
           ELSE IF t.err # "Ok" THEN Fail(t.err)
           ELSE IF fs_of(t.dir) # fs_of(src_inode) THEN Fail("NotSupported")
           ELSE IF contains_key(dirs[t.dir].contents, t.name) THEN Fail("Exist")
           ELSE /\ files[src_inode].nlink < MaxNlink
                /\ IF can_borrow_mut(t.dir, t.held)
                   THEN /\ UNCHANGED <<next_serial, dircaps>>
                        /\ \E c2 \in insert(dirs[t.dir].contents, t.name, src_inode) :
                              Done([dirs EXCEPT ![t.dir].contents = c2],
                                   linked, handles, [op |-> "hard_link"])
                   ELSE Panic(dirs, linked)

\* A second Filesystem::new followed by root(): a new instance with an empty
\* root directory, and a capability on that root.
filesystem_new ==
    /\ Running
    /\ FsStride \notin DOMAIN dirs
    /\ dirs' = [s \in DOMAIN dirs \cup {FsStride} |->
                  IF s = FsStride THEN [parent |-> <<>>, contents |-> <<>>]
                  ELSE dirs[s]]
    /\ dircaps' = dircaps \cup {FsStride}
    /\ result' = "Ok"
    /\ ret' = [op |-> "filesystem_new"]
    /\ UNCHANGED <<files, next_serial, handles>>

\* ------------------------------------------------------------------- u64
\* A u64 argument is four 16-bit limbs, most significant first, so that
\* checked_add and the isize::MAX limit of Vec are computed at full width.
Limb == 2^16

U64(n) == <<0, 0, 0, n>>

U64_MAX == <<Limb - 1, Limb - 1, Limb - 1, Limb - 1>>

\* u64::checked_add: <<>> for None, <<sum>> for Some.
checked_add(a, b) ==
    LET s4 == a[4] + b[4]
        s3 == a[3] + b[3] + (s4 \div Limb)
        s2 == a[2] + b[2] + (s3 \div Limb)
        s1 == a[1] + b[1] + (s2 \div Limb)
    IN  IF s1 >= Limb THEN <<>>
        ELSE <<(<<s1, s2 % Limb, s3 % Limb, s4 % Limb>>)>>

\* v <= n, for a length n the model holds.
u64_le(v, n) == v[1] = 0 /\ v[2] = 0 /\ v[3] = 0 /\ v[4] <= n

\* v > isize::MAX: Vec::resize to such a length panics (capacity overflow).
exceeds_isize(v) == v[1] >= Limb \div 2

\* Vec::resize(size, 0).
resize(contents, size) ==
    [i \in 1..size |-> IF i <= Len(contents) THEN contents[i] ELSE 0]

\* ---------------------------------------------------------------- File
is_read(h) == handles[h].mode \in {"ReadOnly", "ReadWrite"}

is_write(h) == handles[h].mode \in {"WriteOnly", "ReadWrite"}

is_append(h) == "APPEND" \in handles[h].fdflags

Min(a, b) == IF a <= b THEN a ELSE b

\* Cursor<&[u8]> read of up to n bytes at pos: the bytes from min(pos, len).
cursor_read(contents, pos, n) ==
    LET start == Min(pos, Len(contents))
        nbytes == Min(n, Len(contents) - start)
    IN  SubSeq(contents, start + 1, start + nbytes)

\* A write that does not fill the gap: past the end it writes at the end.
cursor_write_no_fill(contents, pos, buf) ==
    LET at == IF pos < Len(contents) THEN pos ELSE Len(contents)
        newlen == IF at + Len(buf) > Len(contents) THEN at + Len(buf) ELSE Len(contents)
    IN  [i \in 1..newlen |->
            IF i > at /\ i <= at + Len(buf) THEN buf[i - at] ELSE contents[i]]

\* Cursor<&mut Vec<u8>> write of buf at pos: zero-fill up to pos, overwrite
\* what is there, extend with the rest.
cursor_write(contents, pos, buf) ==
    LET padded == IF Len(contents) < pos THEN resize(contents, pos) ELSE contents
        newlen == IF pos + Len(buf) > Len(padded) THEN pos + Len(buf) ELSE Len(padded)
    IN  [i \in 1..newlen |->
            IF i > pos /\ i <= pos + Len(buf) THEN buf[i - pos] ELSE padded[i]]

\* A call on handle h that changes its FileInode's contents and its position.
file_update(h, contents, position) ==
    /\ files' = [files EXCEPT ![handles[h].inode].contents = contents]
    /\ handles' = [handles EXCEPT ![h].position = position]
    /\ UNCHANGED <<dirs, next_serial, dircaps>>

handle_ok(h) == h \in 1..Len(handles) /\ handles[h].inode \in DOMAIN files

\* File::get_filestat -> FileInode::get_filestat
file_get_filestat(h) ==
    /\ Running
    /\ handle_ok(h)
    /\ result' = "Ok"
    /\ ret' = [op |-> "get_filestat", filetype |-> "RegularFile",
               inode |-> serial(handles[h].inode),
               nlink |-> files[handles[h].inode].nlink,
               size |-> Len(files[handles[h].inode].contents)]
    /\ UNCHANGED fsvars

\* File::set_filestat_size
set_filestat_size(h, size) ==
    /\ Running
    /\ handle_ok(h)
    /\ IF exceeds_isize(size) THEN Panic(dirs, files)
       ELSE /\ u64_le(size, MaxSize)
            /\ file_update(h, resize(files[handles[h].inode].contents, size[4]),
                           handles[h].position)
            /\ result' = "Ok"
            /\ ret' = [op |-> "set_filestat_size"]

\* File::allocate
allocate(h, offset, len) ==
    LET size == checked_add(offset, len)
        contents == files[handles[h].inode].contents
    IN  /\ Running
        /\ handle_ok(h)
        /\ IF size = <<>> THEN Fail("Overflow")
           ELSE IF u64_le(size[1], Len(contents))
           THEN /\ result' = "Ok" /\ ret' = [op |-> "allocate"] /\ UNCHANGED fsvars
           ELSE IF exceeds_isize(size[1]) THEN Panic(dirs, files)
           ELSE /\ u64_le(size[1], MaxSize)
                /\ file_update(h, resize(contents, size[1][4]), handles[h].position)
                /\ result' = "Ok"
                /\ ret' = [op |-> "allocate"]

\* File::read_vectored: bufs hold n bytes in all.
read_vectored(h, n) ==
    LET contents == files[handles[h].inode].contents
        data == cursor_read(contents, handles[h].position, n)
    IN  /\ Running
        /\ handle_ok(h)
        /\ IF ~is_read(h) THEN Fail("Badf")
           ELSE /\ file_update(h, contents, handles[h].position + Len(data))
                /\ result' = "Ok"
                /\ ret' = [op |-> "read", nbytes |-> Len(data), data |-> data]

\* File::read_vectored_at
read_vectored_at(h, n, offset) ==
    LET contents == files[handles[h].inode].contents
        data == cursor_read(contents, offset, n)
    IN  /\ Running
        /\ handle_ok(h)
        /\ IF ~is_read(h) THEN Fail("Badf")
           ELSE /\ result' = "Ok"
                /\ ret' = [op |-> "read_at", nbytes |-> Len(data), data |-> data]
                /\ UNCHANGED fsvars

\* File::write_vectored: bufs hold the bytes buf in all.
write_vectored(h, buf) ==
    LET contents == files[handles[h].inode].contents
        pos == handles[h].position
    IN  /\ Running
        /\ handle_ok(h)
        /\ IF ~is_write(h) THEN Fail("Badf")
           ELSE /\ pos + Len(buf) <= MaxSize
                /\ file_update(h, cursor_write(contents, pos, buf), pos + Len(buf))
                /\ result' = "Ok"
                /\ ret' = [op |-> "write", nbytes |-> Len(buf)]

\* File::write_vectored_at: the handle's position is set to the cursor's.
write_vectored_at(h, buf, offset) ==
    LET contents == files[handles[h].inode].contents
    IN  /\ Running
        /\ handle_ok(h)
        /\ IF ~is_write(h) \/ is_append(h) THEN Fail("Badf")
           ELSE /\ offset + Len(buf) <= MaxSize
                /\ file_update(h, cursor_write(contents, offset, buf), offset + Len(buf))
                /\ result' = "Ok"
                /\ ret' = [op |-> "write_at", nbytes |-> Len(buf)]

\* Cursor::seek: <<>> for Err(InvalidInput), <<position>> for Ok.
cursor_seek(contents, position, pos) ==
    IF pos.whence = "Start" THEN <<pos.offset>>
    ELSE LET base == IF pos.whence = "End" THEN Len(contents) ELSE position
         IN  IF base + pos.offset < 0 THEN <<>> ELSE <<base + pos.offset>>

\* seek that never looks at the APPEND flag.
seek_any_mode(h, pos) ==
    LET contents == files[handles[h].inode].contents
        new_position == cursor_seek(contents, handles[h].position, pos)
    IN  /\ Running
        /\ handle_ok(h)
        /\ IF new_position = <<>> THEN Fail("InvalidInput")
           ELSE /\ new_position[1] <= MaxSize
                /\ file_update(h, contents, new_position[1])
                /\ result' = "Ok"
                /\ ret' = [op |-> "seek", position |-> new_position[1]]

\* File::seek
seek(h, pos) ==
    LET contents == files[handles[h].inode].contents
        new_position == cursor_seek(contents, handles[h].position, pos)
    IN  /\ Running
        /\ handle_ok(h)
        /\ IF is_append(h)
           THEN IF pos.whence = "Current" /\ pos.offset = 0
                THEN /\ result' = "Ok"
                     /\ ret' = [op |-> "seek", position |-> handles[h].position]
                     /\ UNCHANGED fsvars
                ELSE Fail("Badf")
           ELSE IF new_position = <<>> THEN Fail("InvalidInput")
           ELSE /\ new_position[1] <= MaxSize
                /\ file_update(h, contents, new_position[1])
                /\ result' = "Ok"
                /\ ret' = [op |-> "seek", position |-> new_position[1]]

\* File::peek: a Cursor read of up to n bytes at the handle's position, which
\* is not written back.
peek(h, n) ==
    LET contents == files[handles[h].inode].contents
        data == cursor_read(contents, handles[h].position, n)
    IN  /\ Running
        /\ handle_ok(h)
        /\ IF ~is_read(h) THEN Fail("Badf")
           ELSE /\ result' = "Ok"
                /\ ret' = [op |-> "peek", nbytes |-> Len(data), data |-> data]
                /\ UNCHANGED fsvars

\* The u64 that `0 - k` wraps to, 1 <= k < Limb.
wrapping_neg(k) == <<Limb - 1, Limb - 1, Limb - 1, Limb - k>>

\* File::num_ready_bytes: `len - position` on u64.  With position > len the
\* subtraction overflows: a build with overflow checks panics, a build
\* without them returns the wrapped difference.
num_ready_bytes(h) ==
    LET len == Len(files[handles[h].inode].contents)
        position == handles[h].position
    IN  /\ Running
        /\ handle_ok(h)
        /\ IF ~is_read(h) THEN Fail("Badf")
           ELSE IF len >= position
           THEN /\ result' = "Ok"
                /\ ret' = [op |-> "num_ready_bytes", ready |-> U64(len - position)]
                /\ UNCHANGED fsvars
           ELSE \/ Panic(dirs, files)
                \/ /\ result' = "Ok"
                   /\ ret' = [op |-> "num_ready_bytes",
                              ready |-> wrapping_neg(position - len)]
                   /\ UNCHANGED fsvars

\* ------------------------------------------------------------------ Readdir
\* DirInode::get_filestat / FileInode::get_filestat, as the listing uses it.
inode_get_filestat(inode) ==
    IF inode \in DOMAIN dirs
    THEN [filetype |-> "Directory", inode |-> serial(inode), nlink |-> 0,
          size |-> Len(dirs[inode].contents)]
    ELSE [filetype |-> "RegularFile", inode |-> serial(inode),
          nlink |-> files[inode].nlink,
          size |-> Len(files[inode].contents)]

entity(stat, cursor, name) ==
    [filetype |-> stat.filetype, inode |-> stat.inode, next |-> cursor + 1,
     name |-> name]

\* Readdir::next at `cursor`: "None", "Some" with the entity, or "Panic" when
\* the Weak parent no longer upgrades.
readdir_next(inode, cursor) ==
    IF cursor = 0
    THEN [is |-> "Some", item |-> entity(inode_get_filestat(inode), cursor, Dot)]
    ELSE IF cursor = 1
    THEN IF dirs[inode].parent = <<>>
         THEN [is |-> "Some", item |-> entity(inode_get_filestat(inode), cursor, DotDot)]
         ELSE IF dirs[inode].parent[1] \in DOMAIN dirs
         THEN [is |-> "Some",
               item |-> entity(inode_get_filestat(dirs[inode].parent[1]), cursor, DotDot)]
         ELSE [is |-> "Panic"]
    ELSE IF cursor - 2 < Len(dirs[inode].contents)
    THEN [is |-> "Some",
          item |-> entity(inode_get_filestat(dirs[inode].contents[cursor - 1].inode),
                          cursor, dirs[inode].contents[cursor - 1].name)]
    ELSE [is |-> "None"]

\* The iterator run to its end: the entities it yields, and whether a next() panicked.
RECURSIVE readdir_collect(_, _)
readdir_collect(inode, cursor) ==
    LET n == readdir_next(inode, cursor)
    IN  IF n.is = "None" THEN [panic |-> FALSE, items |-> <<>>]
        ELSE IF n.is = "Panic" THEN [panic |-> TRUE, items |-> <<>>]
        ELSE LET more == readdir_collect(inode, cursor + 1)
             IN  [panic |-> more.panic, items |-> <<n.item>> \o more.items]

\* Dir::readdir(cursor), the iterator consumed with no call in between.
readdir(self, cursor) ==
    LET listing == readdir_collect(self, cursor)
    IN  /\ Running
        /\ self \in dircaps
        /\ IF listing.panic THEN Panic(dirs, files)
           ELSE /\ result' = "Ok"
                /\ ret' = [op |-> "readdir", inode |-> self, cursor |-> cursor,
                           items |-> listing.items]
                /\ UNCHANGED fsvars

\* Dir::get_path_filestat
get_path_filestat(self, path) ==
    LET r == at_path(self, path, FALSE)
        e == get(dirs[r.dir].contents, r.name)
    IN  /\ Running
        /\ self \in dircaps
        /\ IF r.err # "Ok" THEN Fail(r.err)
           ELSE IF e = <<>> THEN Fail("NotFound")
           ELSE /\ result' = "Ok"
                /\ ret' = [op |-> "get_path_filestat"]
                           @@ inode_get_filestat(entry_inode(dirs[r.dir].contents, r.name))
                /\ UNCHANGED fsvars

\* ------------------------------------------------------------------ inputs
OFlags == {{}, {"CREATE"}, {"CREATE", "EXCLUSIVE"}}

FdFlags == {{}, {"APPEND"}}

Bufs == {<<1>>, <<2>>}

SeekFroms ==
    [whence : {"Start"}, offset : 0..MaxSize]
        \cup [whence : {"End", "Current"}, offset : {-1, 0, 1}]

Sizes == {U64(n) : n \in 0..MaxSize} \cup {U64_MAX}

DirPaths == {<<"a">>, <<".">>, <<"a", "/", "a">>}

FilePaths == {<<"a">>, <<"b">>}

\* ------------------------------------------------- directory-tree operations
NextDir ==
    \/ \E self \in dircaps, path \in DirPaths, oflags \in OFlags :
          open_file(self, path, oflags, TRUE, TRUE, {})
    \/ \E self \in dircaps, path \in DirPaths : open_dir(self, path)
    \/ \E self \in dircaps, path \in DirPaths : create_dir(self, path)
    \/ \E self \in dircaps, path \in DirPaths : remove_dir(self, path)
    \/ \E self \in dircaps, path \in DirPaths : unlink_file(self, path)
    \/ \E self \in dircaps, src_path \in DirPaths, target_dir \in dircaps,
          target_path \in DirPaths :
          hard_link(self, src_path, target_dir, target_path)

SpecDir == Init /\ [][NextDir]_vars

\* ------------------------------------------- listings and capability lifetime
\* Directories and files are created under different names here, so that no
\* open_file meets a directory.
ListPaths == {<<"a">>, <<"a", "/">>, <<"a", "/", "a">>}

ListFilePaths == {<<"b">>, <<"a", "/", "b">>}

NextReaddir ==
    \/ \E self \in dircaps, path \in ListPaths : create_dir(self, path)
    \/ \E self \in dircaps, path \in ListFilePaths :
          open_file(self, path, {"CREATE"}, TRUE, TRUE, {})
    \/ \E self \in dircaps, path \in ListPaths : open_dir(self, path)
    \/ \E self \in dircaps, path \in ListPaths \cup ListFilePaths :
          remove_dir(self, path)
    \/ \E self \in dircaps : drop_dir(self)
    \/ \E self \in dircaps, cursor \in 0..MaxCursor : readdir(self, cursor)

SpecReaddir == Init /\ [][NextReaddir]_vars

\* ------------------------------------------------ files of one directory
NextFile ==
    \/ \E path \in FilePaths, oflags \in OFlags, write \in BOOLEAN :
          open_file(0, path, oflags, TRUE, write, {})
    \/ \E path \in FilePaths : unlink_file(0, path)
    \/ \E src_path \in FilePaths, target_path \in FilePaths :
          hard_link(0, src_path, 0, target_path)
    \/ \E path \in FilePaths : get_path_filestat(0, path)
    \/ \E h \in 1..Len(handles) : file_get_filestat(h)
    \/ \E h \in 1..Len(handles), n \in 1..MaxSize : read_vectored(h, n)
    \/ \E h \in 1..Len(handles), buf \in Bufs : write_vectored(h, buf)

SpecFile == Init /\ [][NextFile]_vars

\* ------------------------------------------------------- one file's content
NextIO ==
    \/ \E read \in BOOLEAN, write \in BOOLEAN, fdflags \in FdFlags :
          open_file(0, <<"a">>, {"CREATE"}, read, write, fdflags)
    \/ \E h \in 1..Len(handles) : file_get_filestat(h)
    \/ \E h \in 1..Len(handles), size \in Sizes : set_filestat_size(h, size)
    \/ \E h \in 1..Len(handles), offset \in Sizes, len \in Sizes :
          allocate(h, offset, len)
    \/ \E h \in 1..Len(handles), n \in 1..MaxSize : read_vectored(h, n)
    \/ \E h \in 1..Len(handles), n \in 1..MaxSize, offset \in 0..MaxSize :
          read_vectored_at(h, n, offset)
    \/ \E h \in 1..Len(handles), buf \in Bufs : write_vectored(h, buf)
    \/ \E h \in 1..Len(handles), buf \in Bufs, offset \in 0..MaxSize :
          write_vectored_at(h, buf, offset)
    \/ \E h \in 1..Len(handles), pos \in SeekFroms : seek(h, pos)

SpecIO == Init /\ [][NextIO]_vars

\* ------------------------------------------------- cursor, write and seek
NextWrite ==
    \/ \E read \in BOOLEAN, write \in BOOLEAN, fdflags \in FdFlags :
          open_file(0, <<"a">>, {"CREATE"}, read, write, fdflags)
    \/ \E h \in 1..Len(handles), n \in 1..MaxSize : read_vectored(h, n)
    \/ \E h \in 1..Len(handles), buf \in Bufs : write_vectored(h, buf)
    \/ \E h \in 1..Len(handles), buf \in Bufs, offset \in 0..MaxSize :
          write_vectored_at(h, buf, offset)
    \/ \E h \in 1..Len(handles), pos \in SeekFroms : seek(h, pos)

SpecWrite == Init /\ [][NextWrite]_vars

\* ------------------------------------------------------ the handle's cursor
\* The sizes a buffer of the model has.
SmallSizes == {U64(n) : n \in 0..MaxSize}

NextCursor ==
    \/ \E read \in BOOLEAN, write \in BOOLEAN :
          open_file(0, <<"a">>, {"CREATE"}, read, write, {})
    \/ \E h \in 1..Len(handles), n \in 1..MaxSize, offset \in 0..MaxSize :
          read_vectored_at(h, n, offset)
    \/ \E h \in 1..Len(handles), buf \in Bufs, offset \in 0..MaxSize :
          write_vectored_at(h, buf, offset)
    \/ \E h \in 1..Len(handles), n \in 1..MaxSize : peek(h, n)
    \/ \E h \in 1..Len(handles) : num_ready_bytes(h)
    \/ \E h \in 1..Len(handles), n \in 1..MaxSize : read_vectored(h, n)
    \/ \E h \in 1..Len(handles), buf \in Bufs : write_vectored(h, buf)
    \/ \E h \in 1..Len(handles), pos \in SeekFroms : seek(h, pos)
    \/ \E h \in 1..Len(handles), size \in SmallSizes : set_filestat_size(h, size)

SpecCursor == Init /\ [][NextCursor]_vars

\* ------------------------------------------------------- set_filestat_size
NextResize ==
    \/ \E write \in BOOLEAN :
          open_file(0, <<"a">>, {"CREATE"}, TRUE, write, {})
    \/ \E h \in 1..Len(handles) : file_get_filestat(h)
    \/ \E h \in 1..Len(handles), size \in Sizes : set_filestat_size(h, size)
    \/ \E h \in 1..Len(handles), n \in 1..MaxSize, offset \in 0..MaxSize :
          read_vectored_at(h, n, offset)
    \/ \E h \in 1..Len(handles), buf \in Bufs : write_vectored(h, buf)

SpecResize == Init /\ [][NextResize]_vars

\* ----------------------------------------------------------------- allocate
NextAllocate ==
    \/ \E write \in BOOLEAN :
          open_file(0, <<"a">>, {"CREATE"}, TRUE, write, {})
    \/ \E h \in 1..Len(handles) : file_get_filestat(h)
    \/ \E h \in 1..Len(handles), offset \in Sizes, len \in Sizes :
          allocate(h, offset, len)
    \/ \E h \in 1..Len(handles), n \in 1..MaxSize, offset \in 0..MaxSize :
          read_vectored_at(h, n, offset)
    \/ \E h \in 1..Len(handles), buf \in Bufs : write_vectored(h, buf)

SpecAllocate == Init /\ [][NextAllocate]_vars

\* ------------------------------------------------- two Filesystem instances
LinkPaths == {<<"b">>, <<"b", "/">>, <<"a", "/", "b">>}

NextLink ==
    \/ \E self \in dircaps, src_path \in LinkPaths, target_dir \in dircaps,
          target_path \in LinkPaths :
          hard_link(self, src_path, target_dir, target_path)
    \/ filesystem_new
    \/ create_dir(0, <<"a">>)
    \/ \E path \in LinkPaths : open_file(0, path, {"CREATE"}, TRUE, TRUE, {})
    \/ \E self \in dircaps, path \in LinkPaths : unlink_file(self, path)
    \/ \E self \in dircaps, path \in LinkPaths : get_path_filestat(self, path)

SpecLink == Init /\ [][NextLink]_vars

\* ------------------------------------------------ paths with a `..` segment
DotsPaths == {<<"a">>, DotDot, <<"a", "/", ".", ".">>, <<".", ".", "/", "a">>}

NextDots ==
    \/ \E self \in dircaps, path \in DotsPaths : create_dir(self, path)
    \/ \E self \in dircaps, path \in DotsPaths : open_dir(self, path)
    \/ \E self \in dircaps, path \in DotsPaths, oflags \in {{}, {"CREATE"}} :
          open_file(self, path, oflags, TRUE, TRUE, {})
    \/ \E self \in dircaps, path \in DotsPaths : get_path_filestat(self, path)
    \/ \E self \in dircaps, path \in DotsPaths : remove_dir(self, path)
    \/ \E self \in dircaps, path \in DotsPaths : unlink_file(self, path)

SpecDots == Init /\ [][NextDots]_vars

\* ------------------------------------------------------------ the whole engine
Next == NextDir \/ NextReaddir \/ NextFile \/ NextIO \/ NextWrite \/ NextResize
            \/ NextAllocate \/ NextLink \/ NextDots \/ NextCursor

Spec == Init /\ [][Next]_vars

\* =================================================================== claims
\* The directory entries that name node i: pairs <<directory, position>>.
EntriesNaming(i) ==
    UNION {{<<d, k>> : k \in {j \in 1..Len(dirs[d].contents) :
                                 dirs[d].contents[j].inode = i}} : d \in DOMAIN dirs}

\* The names of directory d that denote node i.
NamesOf(d, i) ==
    {dirs[d].contents[k].name :
        k \in {j \in 1..Len(dirs[d].contents) : dirs[d].contents[j].inode = i}}

\* C1: open-before-unlink durability.  Over every step, the node of every
\* open handle stays in the store; a successful unlink_file leaves its
\* content and the handle as they were; only a write changes its content; and
\* once its link count is 0, read, write and get_filestat through the handle
\* succeed (access mode permitting) on that content: a read returns the bytes
\* at the cursor, a write stores its bytes there, get_filestat reports the
\* node's serial and length.
C1_OpenBeforeUnlink ==
    [][\A h \in 1..Len(handles) :
          LET i == handles[h].inode
          IN  /\ i \in DOMAIN files'
              /\ handles'[h].inode = i
              /\ (result' = "Ok" /\ \E path \in FilePaths : unlink_file(0, path))
                    => /\ files'[i].contents = files[i].contents
                       /\ handles'[h] = handles[h]
              /\ files'[i].contents # files[i].contents => ret'.op = "write"
              /\ files[i].nlink = 0 =>
                    /\ \A n \in 1..MaxSize :
                          (read_vectored(h, n) /\ is_read(h)) =>
                              /\ result' = "Ok"
                              /\ ret'.data = cursor_read(files[i].contents,
                                                         handles[h].position, n)
                    /\ \A buf \in Bufs :
                          (write_vectored(h, buf) /\ is_write(h)) =>
                              /\ result' = "Ok"
                              /\ cursor_read(files'[i].contents, handles[h].position,
                                             Len(buf)) = buf
                    /\ file_get_filestat(h) =>
                          /\ result' = "Ok"
                          /\ ret'.inode = i
                          /\ ret'.nlink = 0
                          /\ ret'.size = Len(files[i].contents)]_vars

\* C1 witness: every open handle is on a node no name denotes any more, and
\* the last call read bytes back through one of them.
C1_Witness ==
    /\ Len(handles) >= 1
    /\ \A h \in 1..Len(handles) : files[handles[h].inode].nlink = 0
    /\ result = "Ok"
    /\ ret.op = "read"
    /\ ret.nbytes >= 1

\* C2: hard-link sharing.  A successful hard_link(A, dir, B) leaves A and B
\* naming the source's node, its content unchanged and its link count one
\* higher; a handle opened by a name is a handle on the node that name
\* denotes, so bytes written through any handle are read at the same offset
\* through every handle on that node; get_path_filestat and get_filestat
\* report the node's serial; and unlink_file of one name leaves every other
\* name of the node, and the content, in place.
C2_HardLinkSharing ==
    [][/\ \A src \in FilePaths, dst \in FilePaths :
             (hard_link(0, src, 0, dst) /\ result' = "Ok") =>
                 LET i == entry_inode(dirs[0].contents, src)
                 IN  /\ get(dirs'[0].contents, dst) # <<>>
                     /\ entry_inode(dirs'[0].contents, dst) = i
                     /\ get(dirs'[0].contents, src) # <<>>
                     /\ entry_inode(dirs'[0].contents, src) = i
                     /\ files'[i].contents = files[i].contents
                     /\ files'[i].nlink = files[i].nlink + 1
       /\ \A path \in FilePaths, oflags \in OFlags, write \in BOOLEAN :
             (/\ open_file(0, path, oflags, TRUE, write, {})
              /\ result' = "Ok"
              /\ get(dirs[0].contents, path) # <<>>) =>
                 handles'[Len(handles')].inode = entry_inode(dirs[0].contents, path)
       /\ \A h \in 1..Len(handles), buf \in Bufs :
             (write_vectored(h, buf) /\ result' = "Ok") =>
                 \A h2 \in 1..Len(handles) :
                     handles[h2].inode = handles[h].inode =>
                         cursor_read(files'[handles'[h2].inode].contents,
                                     handles[h].position, Len(buf)) = buf
       /\ \A path \in FilePaths :
             (get_path_filestat(0, path) /\ result' = "Ok") =>
                 ret'.inode = entry_inode(dirs[0].contents, path)
       /\ \A h \in 1..Len(handles) :
             file_get_filestat(h) => ret'.inode = handles[h].inode
       /\ \A path \in FilePaths :
             (unlink_file(0, path) /\ result' = "Ok") =>
                 LET i == entry_inode(dirs[0].contents, path)
                 IN  \A other \in NamesOf(0, i) \ {path} :
                         /\ get(dirs'[0].contents, other) # <<>>
                         /\ entry_inode(dirs'[0].contents, other) = i
                         /\ i \in DOMAIN files'
                         /\ files'[i].contents = files[i].contents]_vars

\* C2 witness: two names denote one node with link count 2, a handle wrote
\* to it, a later handle is open on it, and the last call read bytes back.
C2_Witness ==
    /\ Len(handles) = 2
    /\ handles[1].inode = handles[2].inode
    /\ Cardinality(NamesOf(0, handles[1].inode)) = 2
    /\ files[handles[1].inode].nlink = 2
    /\ handles[1].position >= 1
    /\ handles[2].mode = "ReadOnly"
    /\ handles[2].position >= 1
    /\ result = "Ok"
    /\ ret.op = "read"
    /\ ret.nbytes >= 1

\* C3: link-count invariant.  While no call has panicked, the link count
\* of every live file node equals the number of directory entries naming it.
C3_LinkCount ==
    Running =>
        \A i \in DOMAIN files : files[i].nlink = Cardinality(EntriesNaming(i))

\* C4: exclusive create.  open_file with CREATE|EXCLUSIVE on a final name that
\* already denotes a file or a directory fails with Exist and changes nothing
\* (stated for the paths whose final name is an ordinary one, not `.`).
C4_ExclusiveCreate ==
    [][\A self \in dircaps, path \in DirPaths \ {Dot} :
          LET r == at_path(self, path, FALSE)
          IN  (/\ open_file(self, path, {"CREATE", "EXCLUSIVE"}, TRUE, TRUE, {})
               /\ r.err = "Ok"
               /\ contains_key(dirs[r.dir].contents, r.name)) =>
                  /\ result' = "Exist"
                  /\ UNCHANGED fsvars]_vars

\* C5: no directory's children map holds an entry named `.` or `..`.
C5_NoDotEntries ==
    \A d \in DOMAIN dirs :
        Dot \notin Names(dirs[d].contents) /\ DotDot \notin Names(dirs[d].contents)

\* C6: parent back-reference.  Every directory a children map names has that
\* map's directory as its parent, and the `..` entity of its listing reports
\* that directory's serial.
C6_ParentBackref ==
    \A d \in DOMAIN dirs : \A k \in 1..Len(dirs[d].contents) :
        LET c == dirs[d].contents[k].inode
        IN  c \in DOMAIN dirs =>
                /\ dirs[c].parent = <<d>>
                /\ (result = "Ok" /\ ret.op = "readdir" /\ ret.inode = c
                                  /\ ret.cursor = 1) =>
                       (ret.items[1].name = DotDot /\ ret.items[1].inode = d)

\* The fixed sequence a listing of directory d is a suffix of.
ListingOf(d) ==
    <<[name |-> Dot, next |-> 1], [name |-> DotDot, next |-> 2]>>
        \o [k \in 1..Len(dirs[d].contents) |->
               [name |-> dirs[d].contents[k].name, next |-> k + 2]]

\* C7: readdir listing.  For every directory a capability is held on and
\* every cursor c, the listing started at c runs to its end and yields
\* exactly the entries c .. N+1 of [`.`, `..`, child_1 .. child_N], each
\* with next = position + 1.
C7_ReaddirListing ==
    \A d \in dircaps, c \in 0..MaxCursor :
        LET l == readdir_collect(d, c)
            want == SubSeq(ListingOf(d), c + 1, Len(dirs[d].contents) + 2)
        IN  /\ ~l.panic
            /\ Len(l.items) = Len(want)
            /\ \A k \in 1..Len(want) :
                  l.items[k].name = want[k].name /\ l.items[k].next = want[k].next

\* C8: remove_dir.  With (dir, name) what the path resolves to: it returns Ok
\* exactly when name denotes a directory with no children, and then name is
\* gone from dir and nothing else changed there; on a directory with children
\* it fails NotEmpty, on a file NotDir, on an absent name NotFound, and a
\* failing call removes no entry.
C8_RemoveDir ==
    [][\A self \in dircaps, path \in ListPaths \cup ListFilePaths :
          remove_dir(self, path) =>
              LET r == at_path(self, path, TRUE)
                  e == get(dirs[r.dir].contents, r.name)
                  inode == entry_inode(dirs[r.dir].contents, r.name)
              IN  IF r.err # "Ok"
                  THEN result' = "NotFound" /\ UNCHANGED fsvars
                  ELSE IF e = <<>>
                  THEN result' = "NotFound" /\ UNCHANGED fsvars
                  ELSE IF inode \in DOMAIN files
                  THEN result' = "NotDir" /\ UNCHANGED fsvars
                  ELSE IF dirs[inode].contents # <<>>
                  THEN result' = "NotEmpty" /\ UNCHANGED fsvars
                  ELSE /\ result' = "Ok"
                       /\ r.name \notin Names(dirs'[r.dir].contents)
                       /\ dirs'[r.dir].contents = remove(dirs[r.dir].contents, r.name)
                       /\ \A d \in DOMAIN dirs' \ {r.dir} : dirs'[d] = dirs[d]
                       /\ files' = files]_vars

\* C8 witness: a directory was created and the last call removed it.
C8_Witness ==
    /\ result = "Ok"
    /\ ret.op = "remove_dir"
    /\ next_serial >= 2

\* C9: no partial failure.  A call that does not return Ok leaves every
\* children map, every file's content and link count, and every handle as
\* they were.
C9_NoPartialFailure ==
    [][result' # "Ok" => UNCHANGED fsvars]_vars

\* C10: no abort.  No call panics.
C10_NoAbort ==
    result # "Panic"

\* The walk of `path` from `self` meets a file where it needs a directory: a
\* component before the last names a file.
RECURSIVE meets_file(_, _)
meets_file(self, path) ==
    LET slash_index == find_slash(path)
        dirname == SubSeq(path, 1, slash_index - 1)
        rest == SubSeq(path, slash_index + 1, Len(path))
    IN  /\ slash_index # 0
        /\ rest # <<>>
        /\ contains_key(dirs[self].contents, dirname)
        /\ LET inode == entry_inode(dirs[self].contents, dirname)
           IN  IF inode \in DOMAIN files THEN TRUE
               ELSE meets_file(inode, rest)

\* The final name of a resolved path denotes a directory.
final_is_dir(r) ==
    /\ r.err = "Ok"
    /\ contains_key(dirs[r.dir].contents, r.name)
    /\ entry_inode(dirs[r.dir].contents, r.name) \in DOMAIN dirs

\* C11: type-mismatch errors.  A call whose path has a file as a component
\* before the last fails with NotDir; open_file with neither CREATE nor
\* EXCLUSIVE on a name that denotes a directory fails with IsDir; unlink_file
\* on a name that denotes a directory fails with IsDir.
C11_TypeMismatch ==
    [][\A self \in dircaps, path \in DirPaths :
          LET r == at_path(self, path, FALSE)
          IN  /\ (/\ meets_file(self, path)
                  /\ \/ open_dir(self, path)
                     \/ create_dir(self, path)
                     \/ remove_dir(self, path)
                     \/ unlink_file(self, path)
                     \/ \E oflags \in OFlags :
                           open_file(self, path, oflags, TRUE, TRUE, {}))
                    => result' = "NotDir"
              /\ (final_is_dir(r) /\ open_file(self, path, {}, TRUE, TRUE, {}))
                    => result' = "IsDir"
              /\ (final_is_dir(r) /\ unlink_file(self, path))
                    => result' = "IsDir"]_vars

\* C20: create without exclusive.  open_file with CREATE and without
\* EXCLUSIVE on a final name already present in the resolved directory, as a
\* file or as a directory, leaves that directory's children map as it was
\* and creates no node (stated for the paths whose final name is not `.`).
C20_CreateKeepsExisting ==
    [][\A self \in dircaps, path \in DirPaths \ {Dot} :
          LET r == at_path(self, path, FALSE)
          IN  (/\ r.err = "Ok"
               /\ contains_key(dirs[r.dir].contents, r.name)
               /\ open_file(self, path, {"CREATE"}, TRUE, TRUE, {})) =>
                  /\ dirs'[r.dir].contents = dirs[r.dir].contents
                  /\ next_serial' = next_serial
                  /\ DOMAIN dirs' = DOMAIN dirs]_vars

\* The characters of a name.
chars(name) == {name[i] : i \in 1..Len(name)}

\* C12: trailing separator.  With P a name that denotes a directory in the
\* directory of a capability, open_dir(P/) returns Ok with the node
\* open_dir(P) yields; create_dir(P/) that returns Ok has inserted the name P;
\* remove_dir(P/) on an empty directory P returns Ok and removes the name P;
\* and no children map holds a name containing a separator.
C12_TrailingSeparator ==
    [][/\ \A self \in dircaps :
             LET P == <<"a">>
                 d == child_dir(self, P)
             IN  /\ (d # <<>> /\ open_dir(self, P \o <<Slash>>)) =>
                        (result' = "Ok" /\ ret'.inode = d[1])
                 /\ (create_dir(self, P \o <<Slash>>) /\ result' = "Ok") =>
                        contains_key(dirs'[self].contents, P)
                 /\ (/\ d # <<>>
                     /\ dirs[d[1]].contents = <<>>
                     /\ remove_dir(self, P \o <<Slash>>)) =>
                        (result' = "Ok" /\ ~contains_key(dirs'[self].contents, P))
       /\ \A d \in DOMAIN dirs' : \A name \in Names(dirs'[d].contents) :
             Slash \notin chars(name)]_vars

\* The segments of a path: the pieces between separators.
RECURSIVE segments(_)
segments(path) ==
    LET slash_index == find_slash(path)
    IN  IF slash_index = 0 THEN {path}
        ELSE {SubSeq(path, 1, slash_index - 1)}
                 \cup segments(SubSeq(path, slash_index + 1, Len(path)))

\* The directories that contain d, directly or through other directories.
ancestors(d) == {x \in DOMAIN dirs \ {d} : d \in reach_dirs(dirs, {x})}

\* C13: a `..` segment never ascends and never resolves.  For every path
\* with a `..` segment, no lookup through it (open_dir, open_file without
\* CREATE, get_path_filestat, remove_dir, unlink_file) returns Ok, and
\* open_dir never returns a capability on a directory that contains the one
\* it was called on.
C13_DotDotFails ==
    [][\A self \in dircaps, path \in {p \in DotsPaths : DotDot \in segments(p)} :
          /\ (\/ open_dir(self, path)
               \/ open_file(self, path, {}, TRUE, TRUE, {})
               \/ get_path_filestat(self, path)
               \/ remove_dir(self, path)
               \/ unlink_file(self, path))
                => result' # "Ok"
          /\ (open_dir(self, path) /\ result' = "Ok")
                => ret'.inode \notin ancestors(self)]_vars

\* new keeps every byte of old at its offset (and is at least as long).
extends(old, new) ==
    /\ Len(new) >= Len(old)
    /\ \A i \in 1..Len(old) : new[i] = old[i]

\* C14: append mode.  No write and no write_at through a handle whose
\* APPEND flag is set changes a byte at an offset below the length the file
\* had when the call was made.
C14_AppendOnly ==
    [][\A h \in 1..Len(handles), buf \in Bufs :
          (/\ is_append(h)
           /\ \/ write_vectored(h, buf)
              \/ \E offset \in 0..MaxSize : write_vectored_at(h, buf, offset))
              => extends(files[handles[h].inode].contents,
                         files'[handles[h].inode].contents)]_vars

\* C15: seek in append mode.  On a handle with the APPEND flag,
\* seek(Current(0)) returns Ok with the handle's offset and changes nothing,
\* and every other seek fails with Badf and changes nothing; on a handle
\* without the flag a seek whose offset would be negative fails and changes
\* nothing, and any other seek returns the computed offset and sets the
\* cursor to it.
C15_SeekAppend ==
    [][\A h \in 1..Len(handles), pos \in SeekFroms :
          seek(h, pos) =>
              LET base == IF pos.whence = "Start" THEN 0
                          ELSE IF pos.whence = "End"
                               THEN Len(files[handles[h].inode].contents)
                               ELSE handles[h].position
              IN  IF is_append(h)
                  THEN IF pos = [whence |-> "Current", offset |-> 0]
                       THEN /\ result' = "Ok"
                            /\ ret'.position = handles[h].position
                            /\ UNCHANGED fsvars
                       ELSE result' = "Badf" /\ UNCHANGED fsvars
                  ELSE IF base + pos.offset < 0
                       THEN result' \notin {"Ok", "Panic"} /\ UNCHANGED fsvars
                       ELSE /\ result' = "Ok"
                            /\ ret'.position = base + pos.offset
                            /\ handles'[h].position = base + pos.offset
                            /\ files' = files]_vars

\* C15 witness: every open handle is in append mode, one of them has written,
\* and the last call was a seek that returned its offset.
C15_Witness ==
    /\ Len(handles) >= 1
    /\ \A h \in 1..Len(handles) : is_append(h)
    /\ result = "Ok"
    /\ ret.op = "seek"
    /\ ret.position >= 1

\* The file of length L after bytes b were written at offset o.
written(old, new, o, b) ==
    /\ Len(new) = (IF o + Len(b) > Len(old) THEN o + Len(b) ELSE Len(old))
    /\ \A i \in 1..Len(new) :
          IF i > o /\ i <= o + Len(b) THEN new[i] = b[i - o]
          ELSE IF i > Len(old) THEN new[i] = 0
          ELSE new[i] = old[i]
    /\ cursor_read(new, o, Len(b)) = b

\* C16: write effect.  After a successful write of bytes b at offset o (the
\* cursor for write, the given offset for write_at) on a file of length L,
\* the bytes at [o, o+|b|) are b, the bytes at [L, o) are zero, every other
\* byte is as before, the length is max(L, o+|b|), and a read of that range
\* yields b.
C16_WriteEffect ==
    [][\A h \in 1..Len(handles), buf \in Bufs :
          LET old == files[handles[h].inode].contents
              new == files'[handles[h].inode].contents
          IN  /\ (write_vectored(h, buf) /\ result' = "Ok")
                    => /\ ret'.nbytes = Len(buf)
                       /\ written(old, new, handles[h].position, buf)
              /\ \A offset \in 0..MaxSize :
                    (write_vectored_at(h, buf, offset) /\ result' = "Ok")
                    => /\ ret'.nbytes = Len(buf)
                       /\ written(old, new, offset, buf)]_vars

\* C16 witness: a write_at past the end of the file has left a zero before
\* the byte it wrote.
C16_Witness ==
    /\ result = "Ok"
    /\ ret.op = "write_at"
    /\ \E i \in DOMAIN files :
          /\ Len(files[i].contents) = 2
          /\ files[i].contents[1] = 0
          /\ files[i].contents[2] # 0

\* new is old cut or zero-extended to the length `size`.
resized(old, new, size) ==
    /\ U64(Len(new)) = size
    /\ \A i \in 1..Len(new) :
          IF i <= Len(old) THEN new[i] = old[i] ELSE new[i] = 0

\* C17: set_filestat_size(n) returns Ok and leaves the file with exactly n
\* bytes: the first min(n, old length) bytes unchanged and the added bytes
\* zero (so cut bytes do not come back when the file grows again), for every
\* handle on the node.
C17_SetSize ==
    [][\A h \in 1..Len(handles), size \in Sizes :
          set_filestat_size(h, size) =>
              /\ result' = "Ok"
              /\ resized(files[handles[h].inode].contents,
                         files'[handles[h].inode].contents, size)
              /\ handles' = handles]_vars

\* C18: allocate(offset, len) fails with Overflow, changing nothing, when
\* offset + len exceeds the 64-bit range; otherwise it returns Ok, and the
\* file keeps its bytes and has length max(old length, offset + len), the
\* new bytes zero.
C18_Allocate ==
    [][\A h \in 1..Len(handles), offset \in Sizes, len \in Sizes :
          allocate(h, offset, len) =>
              LET old == files[handles[h].inode].contents
                  new == files'[handles[h].inode].contents
                  sum == checked_add(offset, len)
              IN  IF sum = <<>>
                  THEN result' = "Overflow" /\ UNCHANGED fsvars
                  ELSE /\ result' = "Ok"
                       /\ IF u64_le(sum[1], Len(old))
                          THEN new = old
                          ELSE resized(old, new, sum[1])]_vars

\* C19, as stated: hard_link whose source is a file and whose destination
\* directory belongs to another Filesystem fails with NotSupported for every
\* destination path, and nothing changes.
C19_AnyDestinationPath ==
    [][\A self \in dircaps, target_dir \in dircaps,
         src_path \in LinkPaths, target_path \in LinkPaths :
          LET r == at_path(self, src_path, FALSE)
          IN  (/\ r.err = "Ok"
               /\ child_file(r.dir, r.name) # <<>>
               /\ fs_of(target_dir) # fs_of(self)
               /\ hard_link(self, src_path, target_dir, target_path)) =>
                  (result' = "NotSupported" /\ UNCHANGED fsvars)]_vars

\* C19, amended: hard_link whose source is a file and whose destination
\* directory belongs to another Filesystem fails with NotSupported when the
\* destination path resolves there and with NotFound when it does not (a
\* missing directory on the way, a trailing separator); in both cases neither
\* Filesystem changes.
C19_CrossInstance ==
    [][\A self \in dircaps, target_dir \in dircaps,
         src_path \in LinkPaths, target_path \in LinkPaths :
          LET r == at_path(self, src_path, FALSE)
              t == at_path(target_dir, target_path, FALSE)
          IN  (/\ r.err = "Ok"
               /\ child_file(r.dir, r.name) # <<>>
               /\ fs_of(target_dir) # fs_of(self)
               /\ hard_link(self, src_path, target_dir, target_path)) =>
                  /\ result' = (IF t.err = "Ok" THEN "NotSupported" ELSE "NotFound")
                  /\ UNCHANGED fsvars]_vars

\* C19 witness: a file exists in the first Filesystem, a second Filesystem
\* exists, and the last call failed with NotSupported.
C19_Witness ==
    /\ result = "NotSupported"
    /\ FsStride \in dircaps
    /\ files # <<>>
    /\ dirs[FsStride].contents = <<>>

\* C21: only the cursor-based read and write and a successful seek move a
\* handle's cursor.  read_at, write_at and peek leave the cursor of the
\* handle they are called on as it was, and no call on one handle changes
\* the cursor of another handle.
C21_CursorFrame ==
    [][\A h \in 1..Len(handles) :
          /\ (\/ (\E n \in 1..MaxSize, offset \in 0..MaxSize :
                     read_vectored_at(h, n, offset))
               \/ (\E buf \in Bufs, offset \in 0..MaxSize :
                     write_vectored_at(h, buf, offset))
               \/ (\E n \in 1..MaxSize : peek(h, n)))
                => handles'[h].position = handles[h].position
          /\ (\/ (\E n \in 1..MaxSize, offset \in 0..MaxSize :
                     read_vectored_at(h, n, offset))
               \/ (\E buf \in Bufs, offset \in 0..MaxSize :
                     write_vectored_at(h, buf, offset))
               \/ (\E n \in 1..MaxSize : peek(h, n))
               \/ (\E n \in 1..MaxSize : read_vectored(h, n))
               \/ (\E buf \in Bufs : write_vectored(h, buf))
               \/ (\E pos \in SeekFroms : seek(h, pos))
               \/ (\E size \in SmallSizes : set_filestat_size(h, size))
               \/ num_ready_bytes(h))
                => \A h2 \in 1..Len(handles) \ {h} :
                       handles'[h2].position = handles[h2].position]_vars

\* C22: num_ready_bytes.  On every handle with read access the call returns
\* Ok with the file's length minus the cursor, a value between 0 and the
\* length, and 0 when the cursor is at or beyond the end.
C22_NumReadyBytes ==
    [][\A h \in 1..Len(handles) :
          (is_read(h) /\ num_ready_bytes(h)) =>
              LET len == Len(files[handles[h].inode].contents)
                  position == handles[h].position
              IN  /\ result' = "Ok"
                  /\ u64_le(ret'.ready, len)
                  /\ ret'.ready = (IF position >= len THEN U64(0)
                                   ELSE U64(len - position))]_vars

====
